---------------------------- MODULE Spec2Model ----------------------------
(***************************************************************************)
(* Influencer-ROI-Dashboard: the KPI functions of app.py (calculate_roas,  *)
(* calculate_iroas, get_top_influencers), the dashboard's filter and the   *)
(* synthetic data generator of notebooks/generate_data.py.                 *)
(*                                                                         *)
(* A DataFrame is a sequence of records (one record per row, one field per *)
(* column).  An integer column holds integers; a float column holds a      *)
(* value of the arithmetic below: an exact rational, NaN, an infinity, or  *)
(* a sum of terms c / (a + eps) where eps stands for the constant 1e-9 of  *)
(* app.py.  The arithmetic is exact: the rounding of IEEE doubles is not   *)
(* modelled, NaN propagation, division by zero and pandas' skipna are.     *)
(***************************************************************************)
EXTENDS Integers, Sequences, FiniteSets, TLC

VARIABLES influencers, posts, tracking, payouts,
          tracking_f, posts_f, top_n, sel,
          res_roas, res_iroas, res_top, pc

vars == <<influencers, posts, tracking, payouts, tracking_f, posts_f,
          top_n, sel, res_roas, res_iroas, res_top, pc>>

tables == <<influencers, posts, tracking, payouts>>

-----------------------------------------------------------------------------
(* Bounds of the model.                                                    *)

\* rows of a tracking table handed to a KPI function
MaxRows == 3
\* rows of a payout table handed to a KPI function
MaxPayoutRows == 2
\* rows of a post table handed to get_top_influencers
MaxPosts == 1
\* largest top_n handed to get_top_influencers
MaxTopN == 3
\* rows of the tracking table the dashboard loads
MaxEvents == 2
\* the generator's table sizes (20 influencers, 100 posts and 3000 tracking
\* rows in generate_data.py)
n_inf == 2
n_posts == 3
n_events == 2

-----------------------------------------------------------------------------
(* Values of the columns.                                                  *)

\* np.nan in an influencer_id column (ids start at 1)
NoId == 0
\* a missing product name
NoProduct == ""
\* revenue of one order: the first price of the generator's price list
Price == 499
\* alphabetical order of the generator's product names (groupby sorts keys)
ProductOrder == <<"Multivitamin", "Protein", "Snack", "Supplement">>
Products == {"Protein", "Snack"}
Sources == {"influencer", "organic", "paid_ad"}
Platforms == {"Instagram", "YouTube"}
Categories == {"Fitness", "Nutrition"}
Users == {1, 2}
InfIds == {1, 2}
Days == {0, 1}
\* a missing platform or category (NaN after a left merge without a match)
NoText == ""
\* total_payout values of a payout row handed to a KPI function
PayoutVals == {0, 2000}

-----------------------------------------------------------------------------
(* Float arithmetic.                                                       *)

Abs(i) == IF i < 0 THEN -i ELSE i

RECURSIVE Gcd(_, _)
Gcd(a, b) == IF b = 0 THEN a ELSE Gcd(b, a % b)

NoTerms == <<>>

NaN == [k |-> "nan", n |-> 0, d |-> 1, t |-> NoTerms]
Inf(s) == [k |-> "inf", n |-> s, d |-> 0, t |-> NoTerms]

\* the rational n/d, d # 0, in lowest terms with a positive denominator
Num(n, d) ==
    LET g == Gcd(Abs(n), Abs(d))
        s == IF d < 0 THEN -1 ELSE 1
    IN  [k |-> "num", n |-> (s * n) \div g, d |-> (s * d) \div g, t |-> NoTerms]

Zero == Num(0, 1)

\* the sum over a in DOMAIN t of t[a] / (a + eps), every t[a] a non-zero rational
Eps(t) == IF DOMAIN t = {} THEN Zero
          ELSE [k |-> "eps", n |-> 0, d |-> 1, t |-> t]

IsNaN(x) == x.k = "nan"
IsFinite(x) == x.k \in {"num", "eps"}
Sign(n) == IF n < 0 THEN -1 ELSE IF n > 0 THEN 1 ELSE 0

\* x / y of two float values without eps terms
FDiv(x, y) ==
    IF IsNaN(x) \/ IsNaN(y) THEN NaN
    ELSE IF x.k = "inf" THEN (IF y.k = "inf" THEN NaN
                              ELSE Inf(x.n * (IF y.n < 0 THEN -1 ELSE 1)))
    ELSE IF y.k = "inf" THEN Zero
    ELSE IF y.n = 0 THEN (IF x.n = 0 THEN NaN ELSE Inf(Sign(x.n)))
    ELSE Num(x.n * y.d, x.d * y.n)

\* x * y
FMul(x, y) ==
    IF IsNaN(x) \/ IsNaN(y) THEN NaN
    ELSE IF x.k = "inf" \/ y.k = "inf"
         THEN (IF x.n = 0 \/ y.n = 0 THEN NaN ELSE Inf(Sign(x.n) * Sign(y.n)))
    ELSE Num(x.n * y.n, x.d * y.d)

\* x - y
FSub(x, y) ==
    IF IsNaN(x) \/ IsNaN(y) THEN NaN
    ELSE IF x.k = "inf" /\ y.k = "inf" THEN (IF x.n = y.n THEN NaN ELSE Inf(x.n))
    ELSE IF x.k = "inf" THEN x
    ELSE IF y.k = "inf" THEN Inf(-y.n)
    ELSE Num(x.n * y.d - y.n * x.d, x.d * y.d)

\* x / (a + 1e-9): x a float value without eps terms, a an integer >= 0 or NaN.
\* a + 1e-9 is never 0, so a number divided by it is a number.
DivEps(x, a) ==
    IF IsNaN(x) \/ IsNaN(a) THEN NaN
    ELSE IF x.k = "inf" THEN x
    ELSE IF x.n = 0 THEN Zero
    ELSE Eps((a.n) :> [n |-> x.n, d |-> x.d])

\* x + y of two finite values with eps terms
EpsAdd(x, y) ==
    LET tx == IF x.k = "eps" THEN x.t ELSE NoTerms
        ty == IF y.k = "eps" THEN y.t ELSE NoTerms
        c(a) == LET p == IF a \in DOMAIN tx THEN tx[a] ELSE [n |-> 0, d |-> 1]
                    q == IF a \in DOMAIN ty THEN ty[a] ELSE [n |-> 0, d |-> 1]
                    r == Num(p.n * q.d + q.n * p.d, p.d * q.d)
                IN  [n |-> r.n, d |-> r.d]
        keep == {a \in DOMAIN tx \cup DOMAIN ty : c(a).n # 0}
    IN  Eps([a \in keep |-> c(a)])

\* x / m of a finite value with eps terms, m an integer > 0
EpsDivInt(x, m) ==
    IF x.k # "eps" THEN x
    ELSE Eps([a \in DOMAIN x.t |->
                LET r == Num(x.t[a].n, x.t[a].d * m) IN [n |-> r.n, d |-> r.d]])

-----------------------------------------------------------------------------
(* Series and DataFrame operations.                                        *)

Range(s) == {s[i] : i \in DOMAIN s}

RECURSIVE SumInt(_)
SumInt(s) == IF s = <<>> THEN 0 ELSE Head(s) + SumInt(Tail(s))

RECURSIVE Flatten(_)
Flatten(ss) == IF ss = <<>> THEN <<>> ELSE Head(ss) \o Flatten(Tail(ss))

\* Series.sum() of an integer column
ColSum(df, col) == SumInt([i \in DOMAIN df |-> df[i][col]])

\* Series.nunique() of a column without NaN
NUnique(df, col) == Cardinality({df[i][col] : i \in DOMAIN df})

\* the elements of a finite set of integers in ascending order
RECURSIVE SortedInts(_)
SortedInts(S) ==
    IF S = {} THEN <<>>
    ELSE LET m == CHOOSE x \in S : \A y \in S : x <= y
         IN  <<m>> \o SortedInts(S \ {m})

ProductRank(p) == CHOOSE i \in DOMAIN ProductOrder : ProductOrder[i] = p

\* the product names of a finite set in alphabetical order
SortedProducts(S) ==
    LET r == SortedInts({ProductRank(p) : p \in S})
    IN  [i \in DOMAIN r |-> ProductOrder[r[i]]]

\* the rows of df whose column col equals v
RowsWhere(df, col, v) == SelectSeq(df, LAMBDA r : r[col] = v)

\* DataFrame.merge(right, how='left') on left column lkey = right column rkey:
\* the left rows in order, each once per matching right row (in the right
\* table's order) with the right row's columns added, or once with the
\* columns of fill (NaN) when no right row matches.  A key equal to null
\* (the column's NaN) matches nothing.
MergeLeft(left, right, lkey, rkey, null, fill) ==
    Flatten([i \in DOMAIN left |->
        LET m == IF left[i][lkey] = null THEN <<>>
                 ELSE RowsWhere(right, rkey, left[i][lkey])
        IN  IF m = <<>> THEN <<left[i] @@ fill>>
            ELSE [j \in DOMAIN m |-> left[i] @@ m[j]]])

\* DataFrame.merge(right) with the default how='inner': as MergeLeft, but a
\* left row that matches no right row is dropped.
MergeInner(left, right, lkey, rkey, null) ==
    Flatten([i \in DOMAIN left |->
        LET m == IF left[i][lkey] = null THEN <<>>
                 ELSE RowsWhere(right, rkey, left[i][lkey])
        IN  [j \in DOMAIN m |-> left[i] @@ m[j]]])

\* Series.mean() with the default skipna=True: NaN entries are left out of
\* the sum and of the count; the mean of no entries is NaN.
RECURSIVE EpsSum(_)
EpsSum(s) == IF s = <<>> THEN Zero ELSE EpsAdd(Head(s), EpsSum(Tail(s)))

Mean(s) ==
    LET kept == SelectSeq(s, LAMBDA x : ~IsNaN(x))
    IN  IF kept = <<>> THEN NaN ELSE EpsDivInt(EpsSum(kept), Len(kept))

RECURSIVE InsertDesc(_, _, _)
InsertDesc(sorted, r, col) ==
    IF sorted = <<>> THEN <<r>>
    ELSE IF Head(sorted)[col] >= r[col]
         THEN <<Head(sorted)>> \o InsertDesc(Tail(sorted), r, col)
         ELSE <<r>> \o sorted

\* DataFrame.sort_values(col, ascending=False) of an integer column: rows of
\* equal value keep their order (numpy sorts short arrays by insertion).
RECURSIVE SortValuesDesc(_, _)
SortValuesDesc(df, col) ==
    IF df = <<>> THEN <<>>
    ELSE InsertDesc(SortValuesDesc(SubSeq(df, 1, Len(df) - 1), col),
                    df[Len(df)], col)

\* DataFrame.head(n): the first n rows, all but the last -n rows when n < 0
DfHead(df, n) ==
    IF n >= 0 THEN SubSeq(df, 1, IF n < Len(df) THEN n ELSE Len(df))
    ELSE SubSeq(df, 1, IF Len(df) + n > 0 THEN Len(df) + n ELSE 0)

-----------------------------------------------------------------------------
(* KPI calculations (app.py).                                              *)

\* roas = total_rev / total_spend, without the guard
RoasUnguarded(total_rev, total_spend) ==
    FDiv(Num(total_rev, 1), Num(total_spend, 1))

\* roas = total_rev / total_spend if total_spend else 0
Roas(total_rev, total_spend) ==
    IF total_spend # 0 THEN FDiv(Num(total_rev, 1), Num(total_spend, 1))
    ELSE Zero

calculate_roas(tf, po) ==
    LET total_rev == ColSum(tf, "revenue")
        total_orders == ColSum(tf, "orders")
        total_spend == ColSum(po, "total_payout")
    IN  [total_rev |-> total_rev, total_orders |-> total_orders,
         total_spend |-> total_spend, roas |-> Roas(total_rev, total_spend)]

\* organic.groupby('product').agg(...) with rev_per_user added
Baseline(tf) ==
    LET organic == RowsWhere(tf, "source", "organic")
        keys == SortedProducts({organic[i].product : i \in DOMAIN organic})
    IN  [i \in DOMAIN keys |->
            LET g == RowsWhere(organic, "product", keys[i])
                org_users == NUnique(g, "user_id")
                org_revenue == ColSum(g, "revenue")
            IN  [product |-> keys[i],
                 rev_per_user |-> FDiv(Num(org_revenue, 1), Num(org_users, 1))]]

\* tracking_f[source == 'influencer'].groupby(['influencer_id', 'product']).agg(...):
\* one row per key pair, sorted by the pair; a NaN influencer_id forms no group
InfluencerGroups(tf) ==
    LET inf == SelectSeq(RowsWhere(tf, "source", "influencer"),
                         LAMBDA r : r.influencer_id # NoId)
        ids == SortedInts({inf[i].influencer_id : i \in DOMAIN inf})
    IN  Flatten([a \in DOMAIN ids |->
            LET gi == RowsWhere(inf, "influencer_id", ids[a])
                ps == SortedProducts({gi[i].product : i \in DOMAIN gi})
            IN  [b \in DOMAIN ps |->
                    LET g == RowsWhere(gi, "product", ps[b])
                    IN  [influencer_id |-> ids[a], product |-> ps[b],
                         inf_users |-> NUnique(g, "user_id"),
                         inf_revenue |-> ColSum(g, "revenue")]]])

\* inf_perf.merge(baseline[['product', 'rev_per_user']], on='product', how='left')
JoinBaseline(inf_perf, baseline) ==
    MergeLeft(inf_perf, baseline, "product", "product", NoProduct,
              [rev_per_user |-> NaN])

\* payouts[['influencer_id', 'total_payout']]
InfSpend(po) ==
    [i \in DOMAIN po |-> [influencer_id |-> po[i].influencer_id,
                          total_payout |-> Num(po[i].total_payout, 1)]]

\* inf_perf.merge(inf_spend, on='influencer_id') with the default how='inner'
JoinSpendInner(inf_perf, po) ==
    MergeInner(inf_perf, InfSpend(po), "influencer_id", "influencer_id", NoId)

\* inf_perf.merge(inf_spend, on='influencer_id', how='left')
JoinSpend(inf_perf, po) ==
    MergeLeft(inf_perf, InfSpend(po), "influencer_id", "influencer_id", NoId,
              [total_payout |-> NaN])

\* inf_perf['incremental_revenue'] = inf_revenue - rev_per_user * inf_users
IncrementalRevenue(inf_revenue, rev_per_user, inf_users) ==
    FSub(Num(inf_revenue, 1), FMul(rev_per_user, Num(inf_users, 1)))

\* inf_perf['iROAS'] = incremental_revenue / (total_payout + 1e-9)
IRoas(incremental_revenue, total_payout) ==
    DivEps(incremental_revenue, total_payout)

\* overall_iroas = inf_perf['iROAS'].mean()
OverallIroas(inf_perf) == Mean([i \in DOMAIN inf_perf |-> inf_perf[i].iROAS])

calculate_iroas(tf, po) ==
    LET joined == JoinBaseline(InfluencerGroups(tf), Baseline(tf))
        withInc == [i \in DOMAIN joined |->
            LET r == joined[i]
                expected == FMul(r.rev_per_user, Num(r.inf_users, 1))
            IN  r @@ [expected_baseline_rev |-> expected,
                      incremental_revenue |->
                          IncrementalRevenue(r.inf_revenue, r.rev_per_user,
                                             r.inf_users)]]
        spent == JoinSpend(withInc, po)
        inf_perf == [i \in DOMAIN spent |->
            spent[i] @@ [iROAS |-> IRoas(spent[i].incremental_revenue,
                                         spent[i].total_payout)]]
    IN  [inf_perf |-> inf_perf, overall_iroas |-> OverallIroas(inf_perf)]


-----------------------------------------------------------------------------
(* Top influencers table (app.py).                                         *)

\* tracking_f[source == 'influencer'].groupby('influencer_id').agg(revenue, orders)
RevenueByInfluencer(tf) ==
    LET inf == SelectSeq(RowsWhere(tf, "source", "influencer"),
                         LAMBDA r : r.influencer_id # NoId)
        ids == SortedInts({inf[i].influencer_id : i \in DOMAIN inf})
    IN  [a \in DOMAIN ids |->
            LET g == RowsWhere(inf, "influencer_id", ids[a])
            IN  [influencer_id |-> ids[a], revenue |-> ColSum(g, "revenue"),
                 orders |-> ColSum(g, "orders")]]

\* .merge(influencers, left_on='influencer_id', right_on='id')
JoinInfluencers(top_inf, infl) ==
    MergeInner(top_inf, infl, "influencer_id", "id", NoId)

\* posts_f.groupby('influencer_id').agg(...) with engagement_rate added,
\* cut to [['influencer_id', 'engagement_rate']]
PostMetrics(pf) ==
    LET ids == SortedInts({pf[i].influencer_id : i \in DOMAIN pf} \ {NoId})
    IN  [a \in DOMAIN ids |->
            LET g == RowsWhere(pf, "influencer_id", ids[a])
            IN  [influencer_id |-> ids[a],
                 engagement_rate |->
                     FDiv(Num(ColSum(g, "likes") + ColSum(g, "comments"), 1),
                          Num(ColSum(g, "reach"), 1))]]

\* top_inf.merge(payouts[['influencer_id', 'total_payout']], on='influencer_id', how='left')
JoinPayouts(top_inf, po) ==
    MergeLeft(top_inf, InfSpend(po), "influencer_id", "influencer_id", NoId,
              [total_payout |-> NaN])

\* top_inf.sort_values('revenue').head(top_n): ascending=False left out
RankedAscending(top_inf, n) ==
    LET d == SortValuesDesc(top_inf, "revenue")
    IN  DfHead([i \in DOMAIN d |-> d[Len(d) + 1 - i]], n)

\* top_inf.sort_values('revenue', ascending=False).head(top_n)
Ranked(top_inf, n) == DfHead(SortValuesDesc(top_inf, "revenue"), n)

get_top_influencers(tf, pf, po, infl, n) ==
    LET top0 == JoinInfluencers(RevenueByInfluencer(tf), infl)
        top1 == MergeLeft(top0, PostMetrics(pf), "influencer_id",
                          "influencer_id", NoId, [engagement_rate |-> NaN])
        top2 == JoinPayouts(top1, po)
        top3 == [i \in DOMAIN top2 |->
                    top2[i] @@ [cost_per_order |->
                        DivEps(top2[i].total_payout, Num(top2[i].orders, 1))]]
    IN  Ranked(top3, n)

-----------------------------------------------------------------------------
(* Input tables of the KPI functions.                                      *)

None == [k |-> "none"]
NoSel == [k |-> "none"]

\* a tracking row as the generator writes it (orders is 0 or 1)
TRow(src, inf, user, product, day, order) ==
    [source |-> src,
     campaign |-> IF src = "organic" THEN "" ELSE "camp_1",
     influencer_id |-> inf, user_id |-> user, product |-> product,
     date |-> day, orders |-> order, revenue |-> order * Price]

PRow(inf, basis, rate, count) ==
    [influencer_id |-> inf, basis |-> basis, rate |-> rate, orders |-> count,
     total_payout |-> rate * count]

IRow(id, category, platform) ==
    [id |-> id, name |-> id, category |-> category, gender |-> "F",
     follower_count |-> 10000, platform |-> platform]

\* a post row; platform is the influencer's platform
PostRow(pid, inf, platform, day, likes, comments, reach) ==
    [post_id |-> pid, influencer_id |-> inf, platform |-> platform,
     date |-> day, likes |-> likes, comments |-> comments, reach |-> reach]

RECURSIVE SetToSeq(_)
SetToSeq(S) ==
    IF S = {} THEN <<>>
    ELSE LET x == CHOOSE y \in S : TRUE IN <<x>> \o SetToSeq(S \ {x})

\* the tables of at most max rows drawn from the row kinds, rows in the order
\* of kinds (a table and its row permutations give the same groups and sums)
TablesOf(kinds, max) ==
    UNION {{[i \in 1..n |-> kinds[ix[i]]] :
              ix \in {f \in [1..n -> DOMAIN kinds] :
                        \A i \in 1..(n - 1) : f[i] <= f[i + 1]}} : n \in 0..max}

PayoutKinds == SetToSeq({PRow(i, "post", v, 1) : i \in InfIds, v \in PayoutVals})
PayoutTables == TablesOf(PayoutKinds, MaxPayoutRows)

UniqueKey(df, col) == \A i, j \in DOMAIN df : df[i][col] = df[j][col] => i = j

\* an influencer table with ids 1..n
Roster(category, platform) ==
    [i \in DOMAIN category |-> IRow(i, category[i], platform[i])]

HarnessRoster == Roster(<<"Fitness", "Nutrition">>, <<"Instagram", "YouTube">>)

PostKinds ==
    <<PostRow(1, 1, "Instagram", 0, 8, 1, 100),
      PostRow(2, 2, "YouTube", 0, 0, 0, 0)>>
PostTables == TablesOf(PostKinds, MaxPosts)

\* every source, with and without an order: what calculate_roas reads
RoasKinds ==
    SetToSeq({TRow(s, IF s = "influencer" THEN 1 ELSE NoId, 1, "Protein", 0, o) :
                s \in Sources, o \in {0, 1}})

\* influencer and organic rows over every id, product, user and order flag,
\* and a paid_ad row: what calculate_iroas reads
IroasKinds ==
    SetToSeq({TRow("influencer", i, u, p, 0, o) :
                i \in InfIds, u \in Users, p \in Products, o \in {0, 1}}
             \cup {TRow("organic", NoId, u, p, 0, o) :
                u \in Users, p \in Products, o \in {0, 1}}
             \cup {TRow("paid_ad", NoId, 1, "Protein", 0, 1)})

\* an influencer_id that is in no roster row
UnknownIds == {3}

\* influencer rows of known influencers with and without an order, of an
\* unknown influencer, an organic and a paid_ad row: what
\* get_top_influencers reads
TopKinds ==
    SetToSeq({TRow("influencer", i, 1, "Protein", 0, o) :
                i \in InfIds, o \in {0, 1}}
             \cup {TRow("influencer", i, 1, "Protein", 0, 1) : i \in UnknownIds}
             \cup {TRow("organic", NoId, 1, "Protein", 0, 1),
                   TRow("paid_ad", NoId, 1, "Protein", 0, 1)})

\* one row kind per source and influencer
PureKinds ==
    <<TRow("influencer", 1, 1, "Protein", 0, 1),
      TRow("influencer", 2, 2, "Snack", 0, 0),
      TRow("organic", NoId, 1, "Protein", 0, 1),
      TRow("paid_ad", NoId, 2, "Snack", 0, 1)>>

HarnessInit ==
    /\ influencers = HarnessRoster
    /\ posts = <<>>
    /\ tracking = <<>>
    /\ sel = NoSel
    /\ res_roas = None
    /\ res_iroas = None
    /\ res_top = None
    /\ pc = "kpi"

InitRoas ==
    /\ HarnessInit
    /\ tracking_f \in TablesOf(RoasKinds, MaxRows)
    /\ payouts \in PayoutTables
    /\ posts_f = <<>>
    /\ top_n = 0

InitIroas ==
    /\ HarnessInit
    /\ tracking_f \in TablesOf(IroasKinds, MaxRows)
    /\ payouts \in PayoutTables
    /\ posts_f = <<>>
    /\ top_n = 0

InitTop ==
    /\ HarnessInit
    /\ tracking_f \in TablesOf(TopKinds, MaxRows)
    /\ payouts \in PayoutTables
    /\ posts_f \in PostTables
    /\ top_n \in 0..MaxTopN

InitPure ==
    /\ HarnessInit
    /\ tracking_f \in TablesOf(PureKinds, MaxRows)
    /\ payouts \in PayoutTables
    /\ posts_f \in PostTables
    /\ top_n \in 0..MaxTopN

-----------------------------------------------------------------------------
(* Calls of the KPI functions on given tables.                             *)

\* The frames handed to a function, as they are when it returns.  Each
\* function selects, groups and merges into new frames and assigns columns
\* only to those (baseline, inf_perf, post_metrics, top_inf).
ArgsAfterRoas(tf, po) == <<tf, po>>

\* rev_per_user assigned to the caller's tracking frame instead of baseline
ArgsAfterIroasAliased(tf, po) ==
    <<[i \in DOMAIN tf |-> tf[i] @@ [rev_per_user |-> NaN]], po>>

ArgsAfterIroas(tf, po) == <<tf, po>>

ArgsAfterTop(tf, pf, po, infl) == <<tf, pf, po, infl>>

\* total_rev, total_orders, total_spend, roas = calculate_roas(tracking_f, payouts)
CallRoas ==
    /\ pc = "kpi"
    /\ res_roas' = calculate_roas(tracking_f, payouts)
    /\ LET after == ArgsAfterRoas(tracking_f, payouts)
       IN  tracking_f' = after[1] /\ payouts' = after[2]
    /\ UNCHANGED <<influencers, posts, tracking, posts_f, top_n, sel,
                   res_iroas, res_top, pc>>

\* inf_perf, overall_iroas = calculate_iroas(tracking_f, payouts)
CallIroas ==
    /\ pc = "kpi"
    /\ res_iroas' = calculate_iroas(tracking_f, payouts)
    /\ LET after == ArgsAfterIroas(tracking_f, payouts)
       IN  tracking_f' = after[1] /\ payouts' = after[2]
    /\ UNCHANGED <<influencers, posts, tracking, posts_f, top_n, sel,
                   res_roas, res_top, pc>>

\* top_inf = get_top_influencers(tracking_f, posts_f, payouts, influencers, top_n)
CallTop ==
    /\ pc = "kpi"
    /\ res_top' = [rows |-> get_top_influencers(tracking_f, posts_f, payouts,
                                                influencers, top_n)]
    /\ LET after == ArgsAfterTop(tracking_f, posts_f, payouts, influencers)
       IN  /\ tracking_f' = after[1]
           /\ posts_f' = after[2]
           /\ payouts' = after[3]
           /\ influencers' = after[4]
    /\ UNCHANGED <<posts, tracking, top_n, sel, res_roas, res_iroas, pc>>

NextRoas == CallRoas
SpecRoas == InitRoas /\ [][NextRoas]_vars

NextIroas == CallIroas
SpecIroas == InitIroas /\ [][NextIroas]_vars

NextTop == CallTop
SpecTop == InitTop /\ [][NextTop]_vars

NextPure == CallRoas \/ CallIroas \/ CallTop
SpecPure == InitPure /\ [][NextPure]_vars

-----------------------------------------------------------------------------
(* The dashboard script (app.py, main body): every interaction reruns it   *)
(* from the filters to the tables.  Dates are whole days.                  *)

\* the values of a column, as Series.unique() lists them for a multiselect
UniqueOf(df, col) == {df[i][col] : i \in DOMAIN df}

\* rows with start_date <= date <= end_date
InDateRange(df, start, end) ==
    SelectSeq(df, LAMBDA r : r.date >= start /\ r.date <= end)

\* influencers[['id', 'platform', 'category']]
InfluencerKeys(infl) ==
    [i \in DOMAIN infl |-> [id |-> infl[i].id, platform |-> infl[i].platform,
                            category |-> infl[i].category]]

\* the mask with rows of no influencer let through
KeptByFilterOrMissing(r, platform_filter, category_filter) ==
    \/ r.id = NoId
    \/ /\ r.platform \in platform_filter
       /\ r.category \in category_filter

\* the mask platform.isin(platform_filter) & category.isin(category_filter):
\* NaN is in no selection
KeptByFilter(r, platform_filter, category_filter) ==
    /\ r.platform \in platform_filter
    /\ r.category \in category_filter

\* tracking_f: the date range, the left merge with the influencers, the mask
FilterTracking(tr, infl, start, end, platform_filter, category_filter) ==
    LET merged == MergeLeft(InDateRange(tr, start, end), InfluencerKeys(infl),
                            "influencer_id", "id", NoId,
                            [id |-> NoId, platform |-> NoText,
                             category |-> NoText])
    IN  SelectSeq(merged,
                  LAMBDA r : KeptByFilter(r, platform_filter, category_filter))

\* posts_f: as tracking_f, with the post's own platform column
FilterPosts(ps, infl, start, end, platform_filter, category_filter) ==
    LET keys == [i \in DOMAIN infl |-> [id |-> infl[i].id,
                                        category |-> infl[i].category]]
        merged == MergeLeft(InDateRange(ps, start, end), keys,
                            "influencer_id", "id", NoId,
                            [id |-> NoId, category |-> NoText])
    IN  SelectSeq(merged,
                  LAMBDA r : KeptByFilter(r, platform_filter, category_filter))

\* the slider's range of top_n
TopNMin == 5
TopNMax == 20

\* tracking rows of the loaded file: influencer rows of both influencers, one
\* of an unknown influencer, an organic and a paid_ad row
DashKinds ==
    SetToSeq({TRow("influencer", 1, 1, "Protein", d, 1) : d \in Days}
             \cup {TRow("influencer", 2, 1, "Protein", 1, 1)}
             \cup {TRow("influencer", i, 1, "Protein", 0, 1) : i \in UnknownIds}
             \cup {TRow("organic", NoId, 2, "Protein", 0, 1),
                   TRow("paid_ad", NoId, 2, "Snack", 1, 1)})

\* state after load_data(): the four tables as read from data/
InitDash ==
    /\ \E c \in Categories, p \in Platforms :
          /\ influencers = Roster(<<"Fitness", c>>, <<"Instagram", p>>)
          /\ posts = <<PostRow(1, 1, "Instagram", 0, 8, 1, 100),
                       PostRow(2, 2, p, 1, 8, 1, 100)>>
    /\ tracking \in TablesOf(DashKinds, MaxEvents) \ {<<>>}
    /\ payouts = <<PRow(1, "post", 2000, 1), PRow(2, "order", 50, 0)>>
    /\ tracking_f = <<>>
    /\ posts_f = <<>>
    /\ top_n = 0
    /\ sel = NoSel
    /\ res_roas = None
    /\ res_iroas = None
    /\ res_top = None
    /\ pc = "dash"

\* one run of the script under a choice of the sidebar widgets
Rerun ==
    /\ pc = "dash"
    /\ \E start \in Days, end \in Days,
          pf \in SUBSET UniqueOf(influencers, "platform"),
          cf \in SUBSET UniqueOf(influencers, "category"),
          n \in {TopNMin, TopNMax} :
          /\ start <= end
          /\ LET tf == FilterTracking(tracking, influencers, start, end, pf, cf)
                 psf == FilterPosts(posts, influencers, start, end, pf, cf)
             IN  /\ sel' = [k |-> "sel", start_date |-> start, end_date |-> end,
                            platform_filter |-> pf, category_filter |-> cf]
                 /\ top_n' = n
                 /\ tracking_f' = tf
                 /\ posts_f' = psf
                 /\ res_roas' = calculate_roas(tf, payouts)
                 /\ res_iroas' = calculate_iroas(tf, payouts)
                 /\ res_top' = [rows |-> get_top_influencers(tf, psf, payouts,
                                                             influencers, n)]
    /\ UNCHANGED <<influencers, posts, tracking, payouts, pc>>

NextDash == Rerun
SpecDash == InitDash /\ [][NextDash]_vars

-----------------------------------------------------------------------------
(* The data generator (notebooks/generate_data.py).  Each random draw is a *)
(* choice; columns that no relation between the tables depends on take one *)
(* sample value.                                                           *)

GenCategories == {"Fitness"}
GenPlatforms == Platforms
GenUsers == {1}
GenProducts == {"Protein"}
GenDays == {0}
PostRates == {2000}
OrderRates == {50}

inf_ids == 1..n_inf

InitGen ==
    /\ influencers = <<>>
    /\ posts = <<>>
    /\ tracking = <<>>
    /\ payouts = <<>>
    /\ tracking_f = <<>>
    /\ posts_f = <<>>
    /\ top_n = 0
    /\ sel = NoSel
    /\ res_roas = None
    /\ res_iroas = None
    /\ res_top = None
    /\ pc = "gen_influencers"

\* 1) Influencers table
GenInfluencers ==
    /\ pc = "gen_influencers"
    /\ \E c \in [inf_ids -> GenCategories], p \in [inf_ids -> GenPlatforms] :
          influencers' = Roster(c, p)
    /\ pc' = "gen_posts"
    /\ UNCHANGED <<posts, tracking, payouts, tracking_f, posts_f, top_n, sel,
                   res_roas, res_iroas, res_top>>

\* post_inf = list(inf_ids) + list(np.random.choice(inf_ids, n_posts - len(inf_ids)))
PostInf(extra) == [i \in 1..n_inf |-> i] \o extra

\* 2) Posts table: one post per influencer and n_posts - n_inf more
GenPosts ==
    /\ pc = "gen_posts"
    /\ \E extra \in [1..(n_posts - n_inf) -> inf_ids],
          day \in [1..n_posts -> GenDays] :
          posts' = [i \in 1..n_posts |->
                      LET iid == PostInf(extra)[i]
                      IN  PostRow(i, iid, influencers[iid].platform, day[i],
                                  8, 1, 100)]
    /\ pc' = "gen_tracking"
    /\ UNCHANGED <<influencers, tracking, payouts, tracking_f, posts_f, top_n,
                   sel, res_roas, res_iroas, res_top>>

\* inf_id = np.random.choice(inf_ids), whatever the source
EventInfIdAnySource(src, choice) == choice

\* inf_id = np.random.choice(inf_ids) if src == 'influencer' else np.nan
EventInfId(src, choice) == IF src = "influencer" THEN choice ELSE NoId

\* 3) Tracking table: one iteration of the loop
GenEvent ==
    /\ pc = "gen_tracking"
    /\ Len(tracking) < n_events
    /\ \E user \in GenUsers, src \in Sources, choice \in inf_ids,
          product \in GenProducts, day \in GenDays, order_flag \in {0, 1} :
          tracking' = Append(tracking,
                             TRow(src, EventInfId(src, choice), user, product,
                                  day, order_flag))
    /\ pc' = IF Len(tracking) + 1 = n_events THEN "gen_payouts" ELSE pc
    /\ UNCHANGED <<influencers, posts, payouts, tracking_f, posts_f, top_n,
                   sel, res_roas, res_iroas, res_top>>

\* 4) Payouts table: the iteration of the loop for the next influencer row
GenPayout ==
    /\ pc = "gen_payouts"
    /\ Len(payouts) < Len(influencers)
    /\ LET r == influencers[Len(payouts) + 1]
           num_posts == Len(RowsWhere(posts, "influencer_id", r.id))
           orders_count ==
               ColSum(RowsWhere(RowsWhere(tracking, "influencer_id", r.id),
                                "source", "influencer"), "orders")
       IN  \/ \E rate \in PostRates :
                payouts' = Append(payouts, PRow(r.id, "post", rate, num_posts))
           \/ \E rate \in OrderRates :
                payouts' = Append(payouts, PRow(r.id, "order", rate, orders_count))
    /\ pc' = IF Len(payouts) + 1 = Len(influencers) THEN "gen_done" ELSE pc
    /\ UNCHANGED <<influencers, posts, tracking, tracking_f, posts_f, top_n,
                   sel, res_roas, res_iroas, res_top>>

NextGen == GenInfluencers \/ GenPosts \/ GenEvent \/ GenPayout
SpecGen == InitGen /\ [][NextGen]_vars

-----------------------------------------------------------------------------
(* Properties.                                                             *)

Min(a, b) == IF a < b THEN a ELSE b

InfluencerRows(tf) == RowsWhere(tf, "source", "influencer")

\* the (influencer_id, product) pairs of the treatment population
TreatmentPairs(tf) ==
    {<<r.influencer_id, r.product>> : r \in Range(InfluencerRows(tf))}

\* the rows of one treatment pair
PairRows(tf, id, product) ==
    RowsWhere(RowsWhere(InfluencerRows(tf), "influencer_id", id),
              "product", product)

\* revenue_per_user(product) as specified: organic revenue over distinct
\* organic users, 0 for a product without organic users
SpecRevPerUser(tf, product) ==
    LET g == RowsWhere(RowsWhere(tf, "source", "organic"), "product", product)
    IN  IF NUnique(g, "user_id") > 0
        THEN FDiv(Num(ColSum(g, "revenue"), 1), Num(NUnique(g, "user_id"), 1))
        ELSE Zero

\* the mean of all entries of a float column: NaN when an entry is NaN
MeanOfAll(col) ==
    IF \E i \in DOMAIN col : IsNaN(col[i]) THEN NaN
    ELSE EpsDivInt(EpsSum(col), Len(col))

Ids(df, col) == {df[i][col] : i \in DOMAIN df}

\* C1: every row of calculate_iroas has incremental_revenue = inf_revenue -
\* revenue_per_user(product) * inf_users, with revenue_per_user(product) = 0
\* (so incremental_revenue = inf_revenue, a number) for a product without
\* organic rows.
C1_IncrementalRevenue ==
    res_iroas # None =>
        \A i \in DOMAIN res_iroas.inf_perf :
            LET r == res_iroas.inf_perf[i]
                g == PairRows(tracking_f, r.influencer_id, r.product)
            IN  r.incremental_revenue =
                    FSub(Num(ColSum(g, "revenue"), 1),
                         FMul(SpecRevPerUser(tracking_f, r.product),
                              Num(NUnique(g, "user_id"), 1)))

\* C2: calculate_roas returns a number, never an infinity: total_rev /
\* total_spend when the payouts sum to a non-zero spend, 0 when they sum to 0
\* (whatever the revenue) and 0 for an empty tracking table; total_rev and
\* total_orders are the sums over the rows of every source.
C2_RoasDefined ==
    res_roas # None =>
        LET spend == SumInt([i \in DOMAIN payouts |-> payouts[i].total_payout])
            rev == SumInt([i \in DOMAIN tracking_f |-> tracking_f[i].revenue])
            orders == SumInt([i \in DOMAIN tracking_f |-> tracking_f[i].orders])
        IN  /\ res_roas.total_rev = rev
            /\ res_roas.total_orders = orders
            /\ res_roas.total_spend = spend
            /\ res_roas.roas.k = "num"
            /\ spend # 0 => res_roas.roas.n * spend = rev * res_roas.roas.d
            /\ spend = 0 => res_roas.roas = Zero
            /\ tracking_f = <<>> => res_roas.roas = Zero

\* calculate_roas has run on rows of several sources with revenue and a
\* payout table whose rows sum to 0
C2_Witness ==
    /\ res_roas # None
    /\ payouts # <<>>
    /\ res_roas.total_spend = 0
    /\ res_roas.total_rev > 0
    /\ Cardinality(Ids(tracking_f, "source")) >= 2

\* C3: with no influencer rows calculate_iroas returns a table of zero rows
\* and an overall mean iROAS of 0.
C3_EmptyTreatment ==
    (res_iroas # None /\ InfluencerRows(tracking_f) = <<>>) =>
        /\ res_iroas.inf_perf = <<>>
        /\ res_iroas.overall_iroas = Zero

\* C4: with influencer_id unique in the payout table, the table of
\* calculate_iroas has exactly one row per (influencer_id, product) pair of
\* the influencer rows and no other row, whether or not the product has an
\* organic baseline and the influencer a payout row.
C4_OneRowPerPair ==
    (res_iroas # None /\ UniqueKey(payouts, "influencer_id")) =>
        LET out == res_iroas.inf_perf
        IN  /\ {<<out[i].influencer_id, out[i].product>> : i \in DOMAIN out}
                   = TreatmentPairs(tracking_f)
            /\ Len(out) = Cardinality(TreatmentPairs(tracking_f))

\* calculate_iroas has run on organic and influencer rows, and a pair whose
\* product has no baseline and whose influencer has no payout row is a row
C4_Witness ==
    /\ res_iroas # None
    /\ UniqueKey(payouts, "influencer_id")
    /\ payouts # <<>>
    /\ RowsWhere(tracking_f, "source", "organic") # <<>>
    /\ Len(res_iroas.inf_perf) = 2
    /\ \E i \in DOMAIN res_iroas.inf_perf :
          /\ IsNaN(res_iroas.inf_perf[i].rev_per_user)
          /\ IsNaN(res_iroas.inf_perf[i].total_payout)

\* C5: every row has iROAS = incremental_revenue / (total_payout + 1e-9) by
\* the one formula, and a row whose total_payout is 0 gets a finite value.
C5_IroasFormula ==
    res_iroas # None =>
        \A i \in DOMAIN res_iroas.inf_perf :
            LET r == res_iroas.inf_perf[i]
            IN  /\ r.iROAS = DivEps(r.incremental_revenue, r.total_payout)
                /\ r.total_payout = Zero => IsFinite(r.iROAS)

\* C6: the overall iROAS is the mean of the iROAS of all rows of the table,
\* each row with weight 1 / (number of rows).
C6_UnweightedMean ==
    (res_iroas # None /\ res_iroas.inf_perf # <<>>) =>
        res_iroas.overall_iroas =
            MeanOfAll([i \in DOMAIN res_iroas.inf_perf |->
                          res_iroas.inf_perf[i].iROAS])

\* summed revenue of an influencer's influencer rows
RevenueOf(tf, id) ==
    ColSum(RowsWhere(InfluencerRows(tf), "influencer_id", id), "revenue")

\* min(top_n, k) rows, in non-increasing order of revenue, none with less
\* revenue than an influencer left out
TopRowsOk(rows, tf, n) ==
    LET ids == Ids(InfluencerRows(tf), "influencer_id")
    IN  /\ Len(rows) = Min(n, Cardinality(ids))
        /\ \A i \in DOMAIN rows :
              /\ rows[i].influencer_id \in ids
              /\ rows[i].revenue = RevenueOf(tf, rows[i].influencer_id)
        /\ \A i, j \in DOMAIN rows : i < j => rows[i].revenue >= rows[j].revenue
        /\ \A i \in DOMAIN rows :
              \A x \in ids \ Ids(rows, "influencer_id") :
                  rows[i].revenue >= RevenueOf(tf, x)

C9_GeneratedRelations ==
    /\ \A i \in DOMAIN posts :
          posts[i].influencer_id \in Ids(influencers, "id")
    /\ \A i \in DOMAIN tracking :
          /\ tracking[i].influencer_id # NoId <=>
                 tracking[i].source = "influencer"
          /\ tracking[i].influencer_id # NoId =>
                 tracking[i].influencer_id \in Ids(influencers, "id")
    /\ UniqueKey(payouts, "influencer_id")
    /\ Ids(payouts, "influencer_id") \subseteq Ids(influencers, "id")
    /\ pc = "gen_done" =>
          /\ Len(payouts) = Len(influencers)
          /\ Ids(payouts, "influencer_id") = Ids(influencers, "id")

\* the generator has finished with influencer and other tracking rows and
\* with more posts than influencers
C9_Witness ==
    /\ pc = "gen_done"
    /\ Len(posts) > Len(influencers)
    /\ \E i \in DOMAIN tracking : tracking[i].source = "influencer"
    /\ \E i \in DOMAIN tracking : tracking[i].source = "organic"
    /\ \E i \in DOMAIN payouts : payouts[i].basis = "order"

\* C10: after the dashboard's filter every row of tracking_f has the
\* influencer_id of an influencer whose platform and category are selected,
\* no row without an influencer_id is kept, and calculate_iroas finds no
\* organic baseline.
C10_FilterKeepsInfluencerRows ==
    sel # NoSel =>
        /\ \A i \in DOMAIN tracking_f :
              /\ tracking_f[i].influencer_id # NoId
              /\ \E j \in DOMAIN influencers :
                    /\ influencers[j].id = tracking_f[i].influencer_id
                    /\ influencers[j].platform \in sel.platform_filter
                    /\ influencers[j].category \in sel.category_filter
        /\ RowsWhere(tracking_f, "source", "organic") = <<>>
        /\ Baseline(tracking_f) = <<>>
        /\ \A i \in DOMAIN res_iroas.inf_perf :
              IsNaN(res_iroas.inf_perf[i].rev_per_user)

\* the script has run with every platform and category selected over dates
\* that hold organic and influencer rows, and has kept rows
C10_Witness ==
    /\ sel # NoSel
    /\ sel.platform_filter = Ids(influencers, "platform")
    /\ sel.category_filter = Ids(influencers, "category")
    /\ \E i \in DOMAIN tracking :
          /\ tracking[i].source = "organic"
          /\ tracking[i].date >= sel.start_date
          /\ tracking[i].date <= sel.end_date
    /\ tracking_f # <<>>
    /\ res_iroas.inf_perf # <<>>

=============================================================================
